---- MODULE Spec2Model ----
(***************************************************************************)
(* Model of the Appwrite functions of the KnowSpace repository.            *)
(*                                                                         *)
(* The generation handler (src/createWithAI/index.js) is modelled as a     *)
(* process that takes one step per awaited external call: the store call   *)
(* and the local code that follows it, up to the next await, form one      *)
(* atomic action.  The user directory (preferences), the tracking          *)
(* collection and the articles collection are the shared state.            *)
(***************************************************************************)
EXTENDS Integers, Sequences, FiniteSets, TLC

(***************************************************************************)
(* Bounds of the model.                                                    *)
(***************************************************************************)
NumProcs == 2      \* handler invocations that can exist side by side
MaxJobs == 2       \* requests received in one behaviour
MaxQuota == 2      \* largest counter value of a preference record in Init
MaxRuns == 1       \* invocations of the daily preferences update
ResetJobs == 1     \* requests received next to the daily preferences update
DailyRuns == 2     \* invocations of the daily preferences update on its own
MaxPages == 2      \* full pages of the largest directory the update lists
MaxErrors == 2     \* users.updatePrefs calls that fail in one run
MaxMatches == 101  \* users of the directory that match a search
MaxDebt == 2       \* most negative counter the decrement is applied to
MaxErrorLength == 200  \* length an error message of a tracking record is held to

Procs == 1..NumProcs

(***************************************************************************)
(* JavaScript values.                                                      *)
(***************************************************************************)
Null == "null"            \* null
Undefined == "undefined"  \* a property absent from the request body

\* !x for the string-or-null values the handler tests
Falsy(x) == x = Null \/ x = Undefined \/ x = ""

\* x || d
OrElse(x, d) == IF Falsy(x) THEN d ELSE x

\* n || 0 for a preference field: absent, or present with a number
FieldOrZero(p, f) == IF f \in DOMAIN p THEN p[f] ELSE 0

\* SpreadWith without the spread of p
SpreadOnly(p, f, v) == [k \in {f} |-> v]

\* { ...p, [f]: v }
SpreadWith(p, f, v) == [k \in (DOMAIN p) \cup {f} |-> IF k = f THEN v ELSE p[k]]

\* Max returning its second argument
MaxSecond(a, b) == b

Max(a, b) == IF a >= b THEN a ELSE b

(***************************************************************************)
(* CONFIG                                                                  *)
(***************************************************************************)
MODELS == [basic |-> "gemini-2.5-flash-lite", pro |-> "gemini-2.5-flash",
           ultra |-> "gemini-2.5-pro"]

MAX_OUTPUT_TOKENS == [concise |-> 30000, moderate |-> 45000, extended |-> 60000]

\* names every object literal inherits from Object.prototype
ObjectPrototype == {"constructor", "toString", "valueOf", "hasOwnProperty"}

\* obj[key] is truthy, for an object literal whose own values are all truthy:
\* key is an own property or an inherited one
TruthyAt(obj, key) == key \in DOMAIN obj \/ key \in ObjectPrototype

STATUS == [IN_PROGRESS |-> "inprogress", COMPLETED |-> "completed",
           FAILED |-> "failed"]

(***************************************************************************)
(* The strings the model draws request fields from.                        *)
(***************************************************************************)
UserIds == {"u1", "u2"}        \* ids a request can carry
Registered == {"u1"}           \* ids the user directory knows
TrackIds == {"t1", "t2"}       \* tracking documents created by the client
RequestTypes == {"basic", "ultra", "ULTRA", "gold"}
UsageFields == {"basic_uses", "pro_uses", "ultra_uses"}

\* String.prototype.toLowerCase on the request types of the model
ToLowerCase(s) == CASE s = "ULTRA" -> "ultra" [] OTHER -> s

getUsageFieldForRequestType(requestType) ==
  LET t == ToLowerCase(requestType) IN
  CASE t = "ultra" -> "ultra_uses"
    [] t = "pro" -> "pro_uses"
    [] t = "basic" -> "basic_uses"
    [] OTHER -> Null

(***************************************************************************)
(* Generated text: a sequence of characters.                               *)
(***************************************************************************)
TextH2 == <<"<", "h", "2", ">", "x", "<", "/", "h", "2", ">">>
TextP == <<"<", "p", ">", "x", "<", "/", "p", ">">>
TextPlain == <<"p", "l", "a", "i", "n", " ", "t", "e", "x", "t">>
TextBlank == <<" ", "\n">>
TextEmpty == <<>>

Texts == {TextH2, TextP, TextPlain, TextBlank, TextEmpty}

LowerChar(c) == CASE c = "H" -> "h" [] c = "P" -> "p" [] OTHER -> c

\* the literal lit (lower case) occurs in html at position i, ignoring case
MatchAt(html, i, lit) ==
  /\ i + Len(lit) - 1 <= Len(html)
  /\ \A k \in 1..Len(lit) : LowerChar(html[i + k - 1]) = lit[k]

\* /<name[^>]*>.*?<\/name>/i.test(html), open = "<name", close = "</name>"
RegexTagTest(html, open, close) ==
  \E i \in 1..Len(html) :
    /\ MatchAt(html, i, open)
    /\ \E j \in (i + Len(open))..Len(html) :
         /\ \A k \in (i + Len(open))..(j - 1) : html[k] # ">"
         /\ html[j] = ">"
         /\ \E m \in (j + 1)..Len(html) :
              /\ \A k \in (j + 1)..(m - 1) : html[k] # "\n"
              /\ MatchAt(html, m, close)

isValidHTMLContent(html) ==
  LET hasH2 == RegexTagTest(html, <<"<", "h", "2">>, <<"<", "/", "h", "2", ">">>)
      hasP == RegexTagTest(html, <<"<", "p">>, <<"<", "/", "p", ">">>)
  IN hasH2 \/ hasP

\* !generatedText || generatedText.trim().length === 0, for a non-null text
IsBlankText(text) == \A k \in 1..Len(text) : text[k] \in {" ", "\n"}

(***************************************************************************)
(* Messages                                                                *)
(***************************************************************************)
MsgMissing == "Missing required fields: userId, prompt, title, category, trackingId"
MsgStyle == "Invalid style. Must be concise, moderate, or extended"
MsgInvalidType == "Invalid request type."
MsgInsufficient == "Insufficient uses."
MsgEmpty == "Generated content is empty"
MsgGenFailed == "Failed to generate content: backend error"

\* s repeated n times
RECURSIVE Repeat(_, _)
Repeat(s, n) == IF n = 0 THEN "" ELSE s \o Repeat(s, n - 1)

\* err.message of the errors ai.models.generateContent throws: a short one
\* and one longer than MaxErrorLength
BackendErrors == {"backend error", Repeat("e", MaxErrorLength + 1)}

\* `Failed to generate content: ${err.message}`
GenFailedMsg(e) == "Failed to generate content: " \o e
MsgValidation == "Content validation failed: must include <h2> or <p> tags for TinyMCE compatibility"
MsgArticle == "Failed to create article document"
MsgStore == "store error"
MsgSyntax == "Unexpected token in JSON"
MsgTypeError == "Cannot read properties of null (reading 'length')"

(***************************************************************************)
(* State                                                                   *)
(***************************************************************************)
VARIABLES
  prefs,      \* user directory: the preferences of each registered user
  tracking,   \* tracking collection: id -> [status, error, postId]
  articles,   \* articles collection, in creation order
  job,        \* per invocation: position in the handler and its locals
  received,   \* number of requests received so far
  initPrefs,  \* the preferences at the start of the behaviour (history)
  successes,  \* success responses per user and usage field (history)
  daily,      \* the run of the daily preferences update: position and locals
  probe       \* a helper applied on its own: its input and its result

vars == <<prefs, tracking, articles, job, received, initPrefs, successes, daily,
         probe>>

\* the display name the directory holds for a registered user
UserName(u) == IF u = "u1" THEN "Ann" ELSE ""

NoReq ==
  [method |-> "none", body |-> "json", userId |-> Undefined, prompt |-> Undefined,
   title |-> Undefined, category |-> Undefined, requestType |-> Undefined,
   style |-> Undefined, trackingId |-> Undefined, sources |-> Undefined]

NoResp == [kind |-> "none", status |-> 0, error |-> "", trackingId |-> Null,
           articleId |-> Null]

NoPrefs == [none |-> 0]

IdleJob ==
  [pc |-> "idle", req |-> NoReq, resp |-> NoResp,
   requestType |-> Undefined,   \* requestType after the destructuring default
   remainingUses |-> <<>>,      \* <<n>> once checkUserPreferences has read n
   failTarget |-> Null,         \* tracking id of the pending failed update
   errMsg |-> "",               \* error message of the pending failure
   content |-> <<>>,            \* generatedContent.content
   authorName |-> "",           \* userDetails.authorName
   documentId |-> Null,         \* articleDoc.documentId
   updatedPrefs |-> NoPrefs,    \* updatedPrefs of decrementUserQuota
   log |-> <<>>,                \* external calls made, in order (history)
   startPrefs |-> NoPrefs,      \* stores when the request arrived (history)
   startTracking |-> NoPrefs,
   startArticles |-> 0]

\* a well-formed request body
BaseReq(u, rt, t) ==
  [method |-> "POST", body |-> "json", userId |-> u, prompt |-> "write",
   title |-> "Title", category |-> "tech", requestType |-> rt,
   style |-> "moderate", trackingId |-> t, sources |-> "list"]

Deviations ==
  LET b == BaseReq("u1", "basic", "t1") IN
  { [b EXCEPT !.method = "OPTIONS"],
    [b EXCEPT !.body = "garbage"],
    [b EXCEPT !.userId = ""],
    [b EXCEPT !.prompt = ""],
    [b EXCEPT !.title = Undefined],
    [b EXCEPT !.category = ""],
    [b EXCEPT !.trackingId = Undefined],
    [b EXCEPT !.style = "fancy"],
    [b EXCEPT !.style = "constructor"],
    [b EXCEPT !.style = Undefined],
    [b EXCEPT !.sources = Null],
    [b EXCEPT !.sources = Null, !.prompt = ""],
    [b EXCEPT !.sources = Undefined] }

Requests ==
  { BaseReq(u, rt, "t1") : u \in UserIds, rt \in RequestTypes \cup {Undefined} }
  \cup { BaseReq("u1", "basic", t) : t \in TrackIds }
  \cup Deviations

\* the well-formed requests of registered users for the basic tier
CoreRequests == { BaseReq(u, "basic", t) : u \in Registered, t \in TrackIds }

\* preference records a registered user can start with: each counter absent
\* or a number in 0..MaxQuota, next to a preference that is no counter
InitCounters == 0..MaxQuota
InitPrefsSet ==
  { [theme |-> "dark", basic_uses |-> b, pro_uses |-> 1, ultra_uses |-> 1] :
      b \in InitCounters }
  \cup { [theme |-> "dark"], [theme |-> "dark", basic_uses |-> 1] }

\* the daily preferences update before it is invoked
\* the users the directory lists, in the order of users.list
Directory == <<"u1">>

IdleDaily ==
  [pc |-> "idle", offset |-> 0, batch |-> <<>>, next |-> 1,
   updatedCount |-> 0, errorCount |-> 0,
   status |-> 0,            \* status of the last response, 0 before the first
   elapsed |-> 0,           \* Date.now() - startTime when last read
   left |-> MaxRuns,        \* invocations still to come
   dir |-> Directory,       \* the directory the run lists
   attempted |-> <<>>,      \* users.updatePrefs calls of this run (history)
   reached |-> {}]          \* users any run so far got to (history)

NoProbe == [fn |-> "none"]

NewTracking == [status |-> STATUS.IN_PROGRESS, error |-> "", postId |-> Null]

Init ==
  /\ prefs \in [Registered -> InitPrefsSet]
  /\ tracking = [t \in TrackIds |-> NewTracking]
  /\ articles = <<>>
  /\ job = [p \in Procs |-> IdleJob]
  /\ received = 0
  /\ initPrefs = prefs
  /\ successes = [u \in UserIds |-> [f \in UsageFields |-> 0]]
  /\ daily = IdleDaily
  /\ probe = NoProbe

(***************************************************************************)
(* Helpers of the actions                                                  *)
(***************************************************************************)
Entry(op, arg, ok) == [op |-> op, arg |-> arg, ok |-> ok]

\* res.json({ success: false, error }, status, ...)
ErrorResp(status, msg) ==
  [kind |-> "error", status |-> status, error |-> msg, trackingId |-> Null,
   articleId |-> Null]

\* res.json({ success: true, message, trackingId, articleId }, 200, ...)
SuccessResp(trackingId, articleId) ==
  [kind |-> "success", status |-> 200, error |-> "", trackingId |-> trackingId,
   articleId |-> articleId]

\* DefaultPrefs granting one use of every tier
DefaultPrefsOne == [basic_uses |-> 1, pro_uses |-> 1, ultra_uses |-> 1]

\* the defaults users.getPrefs' 404 is replaced by
DefaultPrefs == [basic_uses |-> 0, pro_uses |-> 0, ultra_uses |-> 0]

\* users.getPrefs(userId) seen through the 404 handler of its two callers
PrefsOrDefault(u) == IF u \in Registered THEN prefs[u] ELSE DefaultPrefs

\* `let trackingId = null` of the handler: the binding the catch block reads.
\* The destructuring inside the try declares a second, block-scoped
\* trackingId, so this one is never assigned.
OuterTrackingId(req) == Null

\* UpdatedDoc writing the error field only when there is a message
UpdatedDocKeepError(doc, status, errorMessage, postId) ==
  [status |-> status,
   error |-> IF Falsy(errorMessage) THEN doc.error ELSE errorMessage,
   postId |-> IF Falsy(postId) THEN doc.postId ELSE postId]

\* the document databases.updateDocument leaves for updateTrackingStatus'
\* updateData: status and error always, postId only when truthy
UpdatedDoc(doc, status, errorMessage, postId) ==
  [status |-> status, error |-> OrElse(errorMessage, ""),
   postId |-> IF Falsy(postId) THEN doc.postId ELSE postId]

\* updateTrackingStatus: the collection after the call; an error of the
\* store (ok = FALSE, or no such document) is caught and logged
updateTrackingStatus(trackingId, status, errorMessage, postId, ok) ==
  IF ok /\ trackingId \in DOMAIN tracking
  THEN [tracking EXCEPT ![trackingId] = UpdatedDoc(@, status, errorMessage, postId)]
  ELSE tracking

\* FailWith with the compensating update forgotten: the 500 response is
\* returned at once
FailWithoutUpdate(j, target, msg) ==
  [j EXCEPT !.pc = "done", !.resp = ErrorResp(500, msg)]

\* the job goes on to the awaited failed-update and the 500 response
FailWith(j, target, msg) ==
  [j EXCEPT !.pc = "trackFailed", !.failTarget = target, !.errMsg = msg]

\* the catch block of the handler
Catch(j, msg) ==
  LET trackingId == OuterTrackingId(j.req) IN
  IF ~Falsy(trackingId)
  THEN FailWith(j, trackingId, msg)
  ELSE [j EXCEPT !.pc = "done", !.resp = ErrorResp(500, msg)]

Respond(j, resp) == [j EXCEPT !.pc = "done", !.resp = resp]

\* the fields the validation requires
MissingRequired(req) ==
  \/ Falsy(req.userId) \/ Falsy(req.prompt) \/ Falsy(req.title)
  \/ Falsy(req.category) \/ Falsy(req.trackingId)

\* a destructuring default: used when the property is undefined
Default(x, d) == IF x = Undefined THEN d ELSE x

Quiet == \A q \in Procs : job[q].pc = "idle"

(***************************************************************************)
(* The generation handler, lines 68-116: from the request to the first     *)
(* await.                                                                  *)
(***************************************************************************)
ReceiveFrom(p, requests) ==
  /\ job[p].pc = "idle"
  /\ \A q \in 1..(p - 1) : job[q].pc # "idle"   \* invocations are interchangeable
  /\ received < MaxJobs
  /\ \E req \in requests :
       LET j0 == [IdleJob EXCEPT !.req = req,
                                 !.requestType = Default(req.requestType, "basic"),
                                 !.startPrefs = prefs,
                                 !.startTracking = tracking,
                                 !.startArticles = Len(articles)]
           style == Default(req.style, "moderate")
           j1 == IF req.method = "OPTIONS"
                   THEN Respond(j0, [NoResp EXCEPT !.kind = "preflight", !.status = 200])
                 ELSE IF req.body # "json"
                   THEN Catch(j0, MsgSyntax)
                 ELSE IF req.sources = Null
                   THEN Catch(j0, MsgTypeError)
                 ELSE IF MissingRequired(req)
                   THEN Respond(j0, ErrorResp(400, MsgMissing))
                 ELSE IF ~TruthyAt(MAX_OUTPUT_TOKENS, style)
                   THEN Respond(j0, ErrorResp(400, MsgStyle))
                 ELSE [j0 EXCEPT !.pc = "checkPrefs"]
       IN job' = [job EXCEPT ![p] = j1]
  /\ received' = received + 1
  /\ UNCHANGED <<prefs, tracking, articles, initPrefs, daily, probe, successes>>

Receive(p) == ReceiveFrom(p, Requests)

(***************************************************************************)
(* Step 1: checkUserPreferences and the 403 branch.                        *)
(***************************************************************************)
\* Exhausted with the comparison off by one: remainingUses < 0
ExhaustedBelowZero(remainingUses) == remainingUses < 0

\* remainingUses <= 0
Exhausted(remainingUses) == remainingUses <= 0

CheckUserPreferences(p) ==
  /\ job[p].pc = "checkPrefs"
  /\ \E ok \in BOOLEAN :
       LET j == job[p]
           j0 == [j EXCEPT !.log = Append(@, Entry("getPrefs", j.req.userId, ok))]
           userPrefs == PrefsOrDefault(j.req.userId)
           usageField == getUsageFieldForRequestType(j.requestType)
           remainingUses == FieldOrZero(userPrefs, usageField)
           j1 == IF ~ok
                   THEN Respond(j0, ErrorResp(403, MsgStore))
                 ELSE IF Falsy(usageField)
                   THEN Respond(j0, ErrorResp(403, MsgInvalidType))
                 ELSE IF Exhausted(remainingUses)
                   THEN Respond([j0 EXCEPT !.remainingUses = <<remainingUses>>],
                                ErrorResp(403, MsgInsufficient))
                 ELSE [j0 EXCEPT !.remainingUses = <<remainingUses>>,
                                 !.pc = "trackInProgress"]
       IN job' = [job EXCEPT ![p] = j1]
  /\ UNCHANGED <<prefs, tracking, articles, received, initPrefs, daily, probe,
                 successes>>

(***************************************************************************)
(* Step 2: tracking document to inprogress.                                *)
(***************************************************************************)
\* TrackInProgress with the update repeated until the store accepts it
TrackInProgressRetry(p) ==
  /\ job[p].pc = "trackInProgress"
  /\ \E ok \in BOOLEAN :
       LET j == job[p] IN
       /\ tracking' = updateTrackingStatus(j.req.trackingId, STATUS.IN_PROGRESS,
                                           "", Null, ok)
       /\ job' = [job EXCEPT ![p] =
                    [j EXCEPT !.pc = IF ok THEN "generate" ELSE "trackInProgress",
                              !.log = Append(@, Entry("updateDocument",
                                                      STATUS.IN_PROGRESS, ok))]]
  /\ UNCHANGED <<prefs, articles, received, initPrefs, daily, probe, successes>>

TrackInProgress(p) ==
  /\ job[p].pc = "trackInProgress"
  /\ \E ok \in BOOLEAN :
       LET j == job[p] IN
       /\ tracking' = updateTrackingStatus(j.req.trackingId, STATUS.IN_PROGRESS,
                                           "", Null, ok)
       /\ job' = [job EXCEPT ![p] =
                    [j EXCEPT !.pc = "generate",
                              !.log = Append(@, Entry("updateDocument",
                                                      STATUS.IN_PROGRESS, ok))]]
  /\ UNCHANGED <<prefs, articles, received, initPrefs, daily, probe, successes>>

(***************************************************************************)
(* Steps 3 and 5: generateArticleContent, then the HTML validation.        *)
(***************************************************************************)
\* GeneratedOrEmpty without the test for empty text
GeneratedUntested(j, text) ==
  IF ~isValidHTMLContent(text) /\ ~IsBlankText(text)
  THEN FailWith(j, j.req.trackingId, MsgValidation)
  ELSE [j EXCEPT !.pc = "getUser", !.content = text]

\* generateArticleContent's result for response.text = text
GeneratedOrEmpty(j, text) ==
  IF IsBlankText(text)
  THEN FailWith(j, j.req.trackingId, MsgEmpty)
  ELSE IF ~isValidHTMLContent(text)
  THEN FailWith(j, j.req.trackingId, MsgValidation)
  ELSE [j EXCEPT !.pc = "getUser", !.content = text]

Generate(p) ==
  /\ job[p].pc = "generate"
  /\ LET j == job[p]
         called(ok) == [j EXCEPT !.log = Append(@, Entry("generateContent",
                                                         j.requestType, ok))]
     IN \/ \* ai.models.generateContent throws
           \E e \in BackendErrors :
             job' = [job EXCEPT ![p] =
                       FailWith(called(FALSE), j.req.trackingId, GenFailedMsg(e))]
        \/ \* response.text is null or undefined
           job' = [job EXCEPT ![p] =
                     FailWith(called(TRUE), j.req.trackingId, MsgEmpty)]
        \/ \E text \in Texts :
             job' = [job EXCEPT ![p] = GeneratedOrEmpty(called(TRUE), text)]
  /\ UNCHANGED <<prefs, tracking, articles, received, initPrefs, daily, probe,
                 successes>>

\* TrackFailed with the quota charged on the failure path as well
TrackFailedCharging(p) ==
  /\ job[p].pc = "trackFailed"
  /\ \E ok \in BOOLEAN :
       LET j == job[p]
           u == j.req.userId
           f == getUsageFieldForRequestType(j.requestType)
       IN
       /\ tracking' = updateTrackingStatus(j.failTarget, STATUS.FAILED, j.errMsg,
                                           Null, ok)
       /\ prefs' = IF u \in Registered /\ ~Falsy(f)
                   THEN [prefs EXCEPT ![u] =
                           SpreadWith(@, f, Max(0, FieldOrZero(@, f) - 1))]
                   ELSE prefs
       /\ job' = [job EXCEPT ![p] =
                    [j EXCEPT !.pc = "done", !.resp = ErrorResp(500, j.errMsg),
                              !.log = Append(@, Entry("updateDocument",
                                                      STATUS.FAILED, ok))]]
  /\ UNCHANGED <<articles, received, initPrefs, daily, probe, successes>>

(***************************************************************************)
(* The failed update of the tracking document and the 500 response.        *)
(***************************************************************************)
TrackFailed(p) ==
  /\ job[p].pc = "trackFailed"
  /\ \E ok \in BOOLEAN :
       LET j == job[p] IN
       /\ tracking' = updateTrackingStatus(j.failTarget, STATUS.FAILED, j.errMsg,
                                           Null, ok)
       /\ job' = [job EXCEPT ![p] =
                    Respond([j EXCEPT !.log = Append(@, Entry("updateDocument",
                                                              STATUS.FAILED, ok))],
                            ErrorResp(500, j.errMsg))]
  /\ UNCHANGED <<prefs, articles, received, initPrefs, daily, probe, successes>>

(***************************************************************************)
(* Step 6: getUserDetails, then createArticleDocument.                     *)
(***************************************************************************)
GetUserDetails(p) ==
  /\ job[p].pc = "getUser"
  /\ \E ok \in BOOLEAN :
       LET j == job[p]
           found == ok /\ j.req.userId \in Registered
           authorName == IF found THEN OrElse(UserName(j.req.userId), "Anonymous")
                         ELSE "Anonymous"
       IN job' = [job EXCEPT ![p] =
                    [j EXCEPT !.pc = "createArticle", !.authorName = authorName,
                              !.log = Append(@, Entry("users.get", j.req.userId,
                                                      found))]]
  /\ UNCHANGED <<prefs, tracking, articles, received, initPrefs, daily, probe,
                 successes>>

\* ID.unique(): an id no document of the collection has
UniqueId == ToString(Len(articles) + 1)

\* AfterCreate with the check of articleDoc.success left out
AfterCreateUnchecked(j, success, documentId) ==
  [j EXCEPT !.pc = "trackCompleted", !.documentId = documentId]

\* the step after createArticleDocument returned { success, documentId }
AfterCreate(j, success, documentId) ==
  IF ~success
  THEN FailWith(j, j.req.trackingId, MsgArticle)
  ELSE [j EXCEPT !.pc = "trackCompleted", !.documentId = documentId]

\* CreateArticleDocument storing the article a second time
CreateArticleDocumentTwice(p) ==
  /\ job[p].pc = "createArticle"
  /\ \E ok \in BOOLEAN :
       LET j == job[p]
           id == UniqueId
           articleData == [id |-> id, userid |-> j.req.userId, title |-> j.req.title,
                           content |-> j.content, category |-> j.req.category,
                           status |-> "inactive", authorName |-> j.authorName,
                           featuredimage |-> ""]
           j0 == [j EXCEPT !.log = Append(@, Entry("createDocument", id, ok))]
       IN /\ articles' = IF ok THEN Append(Append(articles, articleData), articleData)
                         ELSE articles
          /\ job' = [job EXCEPT ![p] = AfterCreate(j0, ok, id)]
  /\ UNCHANGED <<prefs, tracking, received, initPrefs, daily, probe, successes>>

CreateArticleDocument(p) ==
  /\ job[p].pc = "createArticle"
  /\ \E ok \in BOOLEAN :
       LET j == job[p]
           id == UniqueId
           articleData == [id |-> id, userid |-> j.req.userId, title |-> j.req.title,
                           content |-> j.content, category |-> j.req.category,
                           status |-> "inactive", authorName |-> j.authorName,
                           featuredimage |-> ""]
           j0 == [j EXCEPT !.log = Append(@, Entry("createDocument", id, ok))]
       IN /\ articles' = IF ok THEN Append(articles, articleData) ELSE articles
          /\ job' = [job EXCEPT ![p] = AfterCreate(j0, ok, id)]
  /\ UNCHANGED <<prefs, tracking, received, initPrefs, daily, probe, successes>>

(***************************************************************************)
(* Step 7: tracking document to completed, linked to the article.          *)
(***************************************************************************)
TrackCompleted(p) ==
  /\ job[p].pc = "trackCompleted"
  /\ \E ok \in BOOLEAN :
       LET j == job[p] IN
       /\ tracking' = updateTrackingStatus(j.req.trackingId, STATUS.COMPLETED, "",
                                           j.documentId, ok)
       /\ job' = [job EXCEPT ![p] =
                    [j EXCEPT !.pc = "decrRead",
                              !.log = Append(@, Entry("updateDocument",
                                                      STATUS.COMPLETED, ok))]]
  /\ UNCHANGED <<prefs, articles, received, initPrefs, daily, probe, successes>>

(***************************************************************************)
(* Step 8: decrementUserQuota (read, then write), and the success          *)
(* response.                                                               *)
(***************************************************************************)
\* NewUses giving a use back instead of taking one
NewUsesRefund(currentUses) == currentUses + 1

\* Math.max(0, currentUses - 1)
NewUses(currentUses) == Max(0, currentUses - 1)

\* updatedPrefs of decrementUserQuota for the preferences it read
UpdatedPrefs(currentPrefs, usageField) ==
  LET currentUses == FieldOrZero(currentPrefs, usageField)
      newUses == NewUses(currentUses)
  IN SpreadWith(currentPrefs, usageField, newUses)

\* the handler's last statement
Succeed(j) == Respond(j, SuccessResp(j.req.trackingId, j.documentId))

CountSuccess(j) ==
  LET f == getUsageFieldForRequestType(j.requestType) IN
  [successes EXCEPT ![j.req.userId][f] = @ + 1]

DecrementRead(p) ==
  /\ job[p].pc = "decrRead"
  /\ \E ok \in BOOLEAN :
       LET j == job[p]
           j0 == [j EXCEPT !.log = Append(@, Entry("getPrefs", j.req.userId, ok))]
           currentPrefs == PrefsOrDefault(j.req.userId)
           usageField == getUsageFieldForRequestType(j.requestType)
           updatedPrefs == UpdatedPrefs(currentPrefs, usageField)
       IN IF ~ok \/ Falsy(usageField)
          THEN \* the error is caught inside decrementUserQuota
               /\ job' = [job EXCEPT ![p] = Succeed(j0)]
               /\ successes' = CountSuccess(j)
          ELSE /\ job' = [job EXCEPT ![p] =
                            [j0 EXCEPT !.pc = "decrWrite",
                                       !.updatedPrefs = updatedPrefs]]
               /\ UNCHANGED successes
  /\ UNCHANGED <<prefs, tracking, articles, received, initPrefs, daily, probe>>

\* DecrementWrite as an atomic decrement of the stored counter
DecrementWriteAtomic(p) ==
  /\ job[p].pc = "decrWrite"
  /\ \E ok \in BOOLEAN :
       LET j == job[p]
           written == ok /\ j.req.userId \in Registered
           f == getUsageFieldForRequestType(j.requestType)
       IN /\ prefs' = IF written
                      THEN [prefs EXCEPT ![j.req.userId] = UpdatedPrefs(@, f)]
                      ELSE prefs
          /\ job' = [job EXCEPT ![p] =
                       Succeed([j EXCEPT !.log = Append(@, Entry("updatePrefs",
                                                                 j.req.userId,
                                                                 written))])]
          /\ successes' = CountSuccess(j)
  /\ UNCHANGED <<tracking, articles, received, initPrefs, daily, probe>>

DecrementWrite(p) ==
  /\ job[p].pc = "decrWrite"
  /\ \E ok \in BOOLEAN :
       LET j == job[p]
           written == ok /\ j.req.userId \in Registered
       IN /\ prefs' = IF written
                      THEN [prefs EXCEPT ![j.req.userId] = j.updatedPrefs]
                      ELSE prefs
          /\ job' = [job EXCEPT ![p] =
                       Succeed([j EXCEPT !.log = Append(@, Entry("updatePrefs",
                                                                 j.req.userId,
                                                                 written))])]
          /\ successes' = CountSuccess(j)
  /\ UNCHANGED <<tracking, articles, received, initPrefs, daily, probe>>

(***************************************************************************)
(* The platform delivers the response; the invocation is over.             *)
(***************************************************************************)
Finish(p) ==
  /\ job[p].pc = "done"
  /\ job' = [job EXCEPT ![p] = IdleJob]
  /\ UNCHANGED <<prefs, tracking, articles, received, initPrefs, daily, probe,
                 successes>>

Step(p) ==
  \/ CheckUserPreferences(p)
  \/ TrackInProgress(p)
  \/ Generate(p)
  \/ TrackFailed(p)
  \/ GetUserDetails(p)
  \/ CreateArticleDocument(p)
  \/ TrackCompleted(p)
  \/ DecrementRead(p)
  \/ DecrementWrite(p)
  \/ Finish(p)

\* Requests arrive one at a time: a request is received only when no
\* invocation is running.
Next == \E p \in Procs : (Quiet /\ Receive(p)) \/ Step(p)

Spec == Init /\ [][Next]_vars

(***************************************************************************)
(* The daily preferences update (src/unnamed/part_000, lines 1-123): one   *)
(* action per awaited call of the user directory.                          *)
(***************************************************************************)
\* Max users per API call
limit == 100

Min(a, b) == IF a <= b THEN a ELSE b

\* { ...a, ...b }
Merge(a, b) ==
  [k \in (DOMAIN a) \cup (DOMAIN b) |-> IF k \in DOMAIN b THEN b[k] ELSE a[k]]

\* the labels a listed user can carry
LabelLists == {<<>>, <<"admin">>}

\* user.labels && Array.isArray(user.labels) && user.labels.includes('admin')
isAdmin(labels) == \E i \in DOMAIN labels : labels[i] = "admin"

AdminUsage == [basic_uses |-> 999, pro_uses |-> 999, ultra_uses |-> 999]
RegularUsage == [basic_uses |-> 10, pro_uses |-> 5, ultra_uses |-> 3]

\* usageValues without the admin branch
usageValuesRegular(labels) == RegularUsage

usageValues(labels) == IF isAdmin(labels) THEN AdminUsage ELSE RegularUsage

\* updatedPreferences for a user of the listed batch
updatedPreferences(user) == Merge(user.prefs, usageValues(user.labels))

\* 14 minutes 30 seconds, as the code computes it
TIMEOUT_THRESHOLD == 14 * 60 * 1000 + 30

\* Date.now() - startTime at the moments it is read: at the start, at the
\* threshold and just past it
Times == {0, TIMEOUT_THRESHOLD, TIMEOUT_THRESHOLD + 1}

\* a listed user outside Registered: user.prefs || {} and no labels
OtherUser(id) == [id |-> id, prefs |-> <<>>, labels |-> <<>>]

\* the function is invoked (by its schedule)
DailyStart ==
  /\ daily.pc = "idle"
  /\ daily.left > 0
  /\ daily' = [IdleDaily EXCEPT !.pc = "list", !.left = daily.left - 1,
                                !.dir = daily.dir, !.reached = daily.reached]
  /\ UNCHANGED <<prefs, tracking, articles, job, received, initPrefs, probe,
                 successes>>

\* users.list([limit, offset]): the page with each user's preferences and
\* labels as they are now; an error of the directory ends the run with 500
DailyList ==
  /\ daily.pc = "list"
  /\ \E ok \in BOOLEAN :
       IF ok
       THEN LET ids == SubSeq(daily.dir, daily.offset + 1,
                              Min(daily.offset + limit, Len(daily.dir)))
            IN \E labels \in LabelLists :
                 daily' = [daily EXCEPT
                             !.pc = "update", !.next = 1,
                             !.batch = [i \in DOMAIN ids |->
                                          IF ids[i] \in Registered
                                          THEN [id |-> ids[i], prefs |-> prefs[ids[i]],
                                                labels |-> labels]
                                          ELSE OtherUser(ids[i])]]
       ELSE daily' = [daily EXCEPT !.pc = "idle", !.status = 500]
  /\ UNCHANGED <<prefs, tracking, articles, job, received, initPrefs, probe,
                 successes>>

\* users.updatePrefs for the next user of the batch, then the counters; the
\* preferences of the users outside Registered are not kept
DailyUpdate ==
  /\ daily.pc = "update"
  /\ daily.next <= Len(daily.batch)
  /\ \E ok \in BOOLEAN :
       LET user == daily.batch[daily.next] IN
       /\ ok \/ daily.errorCount < MaxErrors
       /\ prefs' = IF ok /\ user.id \in Registered
                   THEN [prefs EXCEPT ![user.id] = updatedPreferences(user)]
                   ELSE prefs
       /\ daily' = [daily EXCEPT
                      !.next = @ + 1,
                      !.updatedCount = IF ok THEN @ + 1 ELSE @,
                      !.errorCount = IF ok THEN @ ELSE @ + 1,
                      !.attempted = Append(@, user.id),
                      !.reached = @ \cup {user.id}]
  /\ UNCHANGED <<tracking, articles, job, received, initPrefs, probe, successes>>

\* DailyBatchEnd taking a full page for the last one
DailyBatchEndFullIsLast ==
  /\ daily.pc = "update"
  /\ daily.next > Len(daily.batch)
  /\ \E now \in Times :
       /\ now >= daily.elapsed
       /\ daily' = IF now > TIMEOUT_THRESHOLD \/ Len(daily.batch) <= limit
                   THEN [daily EXCEPT !.pc = "idle", !.status = 200,
                                      !.elapsed = now]
                   ELSE [daily EXCEPT !.pc = "list", !.offset = @ + limit,
                                      !.elapsed = now]
  /\ UNCHANGED <<prefs, tracking, articles, job, received, initPrefs, probe,
                 successes>>

\* the end of a batch: the timeout check on the clock as it is read now,
\* then the test for more users (and the pause before the next page)
DailyBatchEnd ==
  /\ daily.pc = "update"
  /\ daily.next > Len(daily.batch)
  /\ \E now \in Times :
       /\ now >= daily.elapsed
       /\ daily' = IF now > TIMEOUT_THRESHOLD \/ Len(daily.batch) < limit
                   THEN [daily EXCEPT !.pc = "idle", !.status = 200,
                                      !.elapsed = now]
                   ELSE [daily EXCEPT !.pc = "list", !.offset = @ + limit,
                                      !.elapsed = now]
  /\ UNCHANGED <<prefs, tracking, articles, job, received, initPrefs, probe,
                 successes>>

DailyStep == DailyStart \/ DailyList \/ DailyUpdate \/ DailyBatchEnd

\* the request of the user the daily update resets
ResetRequests == { BaseReq(Directory[1], "basic", "t1") }

\* Generation requests arriving one at a time, and the daily update running
\* at any time next to them.
ResetNext ==
  \/ \E p \in Procs :
       \/ Quiet /\ received < ResetJobs /\ ReceiveFrom(p, ResetRequests)
       \/ Step(p)
  \/ DailyStep

ResetSpec == Init /\ [][ResetNext]_vars

(***************************************************************************)
(* The daily preferences update on its own, invoked DailyRuns times on an  *)
(* unchanging directory of 0 users, 1 user, or around a multiple of the    *)
(* page size.                                                              *)
(***************************************************************************)
DirectorySizes ==
  {0} \cup { k * limit + d : k \in 0..(MaxPages - 1), d \in {1, limit} }

\* a directory of n users, the registered one first
DirectoryOf(n) == [i \in 1..n |-> IF i = 1 THEN Directory[1] ELSE ToString(i)]

DailyInit ==
  /\ prefs = [u \in Registered |-> [theme |-> "dark", basic_uses |-> 0]]
  /\ tracking = [t \in TrackIds |-> NewTracking]
  /\ articles = <<>>
  /\ job = [p \in Procs |-> IdleJob]
  /\ received = 0
  /\ initPrefs = prefs
  /\ successes = [u \in UserIds |-> [f \in UsageFields |-> 0]]
  /\ probe = NoProbe
  /\ \E n \in DirectorySizes :
       daily = [IdleDaily EXCEPT !.left = DailyRuns, !.dir = DirectoryOf(n)]

DailySpec == DailyInit /\ [][DailyStep]_vars

\* every invocation that can be made is made, and every call returns
DailyLiveSpec ==
  /\ DailySpec
  /\ WF_vars(DailyStart) /\ WF_vars(DailyList) /\ WF_vars(DailyUpdate)
  /\ WF_vars(DailyBatchEnd)

(***************************************************************************)
(* decrementUserQuota's computation (lines 1156-1166) applied to           *)
(* preference records of every shape: each counter absent, negative, zero  *)
(* or positive.                                                            *)
(***************************************************************************)
ProbeCounters == (0 - MaxDebt)..MaxQuota

\* a preference that is no counter, next to any of the counters
ProbePrefs ==
  { Merge([theme |-> "dark"], c) :
      c \in UNION { [fs -> ProbeCounters] : fs \in SUBSET UsageFields } }

\* texts the validator is applied to: the generated texts, upper-case tags,
\* a tag with an attribute, an element over two lines, an unclosed tag and
\* a closing tag behind another element
TextUpper == <<"<", "P", ">", "x", "<", "/", "P", ">">>
TextAttr == <<"<", "h", "2", " ", "i", "d", ">", "x", "<", "/", "h", "2", ">">>
TextTwoLines == <<"<", "p", ">", "a", "\n", "b", "<", "/", "p", ">">>
TextUnclosed == <<"<", "p", ">", "x">>
TextPre == <<"<", "p", "r", "e", ">", "x", "<", "/", "p", ">">>

ProbeTexts ==
  Texts \cup {TextUpper, TextAttr, TextTwoLines, TextUnclosed, TextPre}

ProbeInit ==
  /\ prefs \in [Registered -> InitPrefsSet]
  /\ tracking = [t \in TrackIds |-> NewTracking]
  /\ articles = <<>>
  /\ job = [p \in Procs |-> IdleJob]
  /\ received = 0
  /\ initPrefs = prefs
  /\ successes = [u \in UserIds |-> [f \in UsageFields |-> 0]]
  /\ daily = IdleDaily
  /\ \/ \E cp \in ProbePrefs, rt \in RequestTypes \ {"gold"} :
          probe = [fn |-> "input", currentPrefs |-> cp, requestType |-> rt]
     \/ \E html \in ProbeTexts :
          probe = [fn |-> "text", html |-> html]

\* lines 1156-1166 for the preferences and request type drawn
ProbeDecrement ==
  /\ probe.fn = "input"
  /\ LET usageField == getUsageFieldForRequestType(probe.requestType) IN
     probe' = [fn |-> "decrementUserQuota",
               currentPrefs |-> probe.currentPrefs,
               usageField |-> usageField,
               updatedPrefs |-> UpdatedPrefs(probe.currentPrefs, usageField)]
  /\ UNCHANGED <<prefs, tracking, articles, job, received, initPrefs, daily,
                 successes>>

\* isValidHTMLContent for the text drawn
ProbeValidate ==
  /\ probe.fn = "text"
  /\ probe' = [fn |-> "isValidHTMLContent", html |-> probe.html,
               isValid |-> isValidHTMLContent(probe.html)]
  /\ UNCHANGED <<prefs, tracking, articles, job, received, initPrefs, daily,
                 successes>>

ProbeNext == ProbeDecrement \/ ProbeValidate

ProbeSpec == ProbeInit /\ [][ProbeNext]_vars

(***************************************************************************)
(* The two user-search handlers (src/unnamed/part_000, lines 287-408 and   *)
(* 410-555) and a client that pages through a search: it asks for offset   *)
(* 0 (or an input sanitized to it) and then for the nextOffset returned,   *)
(* as long as hasMore is true. The matching users of the unchanging        *)
(* directory are numbered 1..total in the order users.list returns them.   *)
(***************************************************************************)
\* values of the body's limit and offset: a number, a text that is no
\* number, or absent
Num(n) == [t |-> "number", n |-> n]
NotANumber == [t |-> "NaN", n |-> 0]
TextValue == [t |-> "string", n |-> 0]
Absent == [t |-> "undefined", n |-> 0]

\* const { name, limit = 25, offset = 0 } = requestBody
DefaultNum(v, d) == IF v.t = "undefined" THEN Num(d) ELSE v

\* parseInt on these values
parseInt(v) == IF v.t = "number" THEN v ELSE NotANumber

\* v || d for a number or NaN v
NumOr(v, d) == IF v.t = "number" /\ v.n # 0 THEN v.n ELSE d

\* sanitizedLimit without the cap at 100
sanitizedLimitUncapped(lim) ==
  Max(NumOr(parseInt(DefaultNum(lim, 25)), 25), 1)

\* Math.min(Math.max(parseInt(limit) || 25, 1), 100)
sanitizedLimit(lim) ==
  Min(Max(NumOr(parseInt(DefaultNum(lim, 25)), 25), 1), 100)

\* Math.max(parseInt(offset) || 0, 0)
sanitizedOffset(offset) == Max(NumOr(parseInt(DefaultNum(offset, 0)), 0), 0)

LimitInputs ==
  {Absent, TextValue} \cup { Num(n) : n \in {0 - 1, 0, 1, 2, 100, 101, 1000} }

FirstOffsets == {Absent, TextValue, Num(0), Num(0 - 5)}

SearchTotals == {0, 1, 2, MaxMatches - 1, MaxMatches}

\* the statuses the catch block of handler h answers with
SearchErrors(h) == {401, 429, 500} \cup (IF h = "byType" THEN {400} ELSE {})

SearchInit ==
  /\ prefs = [u \in Registered |-> [theme |-> "dark", basic_uses |-> 0]]
  /\ tracking = [t \in TrackIds |-> NewTracking]
  /\ articles = <<>>
  /\ job = [p \in Procs |-> IdleJob]
  /\ received = 0
  /\ initPrefs = prefs
  /\ successes = [u \in UserIds |-> [f \in UsageFields |-> 0]]
  /\ daily = IdleDaily
  /\ \E h \in {"byName", "byType"}, total \in SearchTotals,
        lim \in LimitInputs, offset \in FirstOffsets :
       probe = [fn |-> "search", handler |-> h, total |-> total,
                limit |-> lim, offset |-> offset,
                pc |-> "asking", status |-> 0, requests |-> 0,
                users |-> <<>>,        \* the users received so far
                sanitizedLimit |-> 1, sanitizedOffset |-> 0,
                hasMore |-> FALSE, nextOffset |-> <<>>]

\* one request of the client to handler h and the handler's answer; the
\* name sent passes the validation
SearchRequest(h) ==
  /\ probe.fn = "search" /\ probe.handler = h /\ probe.pc = "asking"
  /\ \/ \* users.list throws
        \E code \in SearchErrors(h) :
          probe' = [probe EXCEPT !.pc = "failed", !.status = code,
                                 !.requests = @ + 1]
     \/ LET sl == sanitizedLimit(probe.limit)
            so == sanitizedOffset(probe.offset)
            page == [i \in 1..(Min(so + sl, probe.total) - so) |-> so + i]
            totalUsers == probe.total
            nextOffset == so + Len(page)
            hasMore == nextOffset < totalUsers
        IN probe' = [probe EXCEPT
                       !.status = 200, !.requests = @ + 1,
                       !.users = @ \o page,
                       !.sanitizedLimit = sl, !.sanitizedOffset = so,
                       !.hasMore = hasMore,
                       !.nextOffset = IF hasMore THEN <<nextOffset>> ELSE <<>>,
                       !.offset = IF hasMore THEN Num(nextOffset) ELSE @,
                       !.pc = IF hasMore THEN "asking" ELSE "complete"]
  /\ UNCHANGED <<prefs, tracking, articles, job, received, initPrefs, daily,
                 successes>>

\* the search-by-name handler (lines 287-408)
SearchByName == SearchRequest("byName")

\* the search handler with searchType (lines 410-555)
SearchByType == SearchRequest("byType")

SearchNext == SearchByName \/ SearchByType

SearchSpec == SearchInit /\ [][SearchNext]_vars

(***************************************************************************)
(* Overlapping invocations: the platform starts an invocation for every    *)
(* request, whether or not another one is running.                         *)
(***************************************************************************)
ConcNext == \E p \in Procs : ReceiveFrom(p, CoreRequests) \/ Step(p)

ConcSpec == Init /\ [][ConcNext]_vars

(***************************************************************************)
(* Vocabulary of the properties                                            *)
(***************************************************************************)
Done(p) == job[p].pc = "done"

Terminal == {STATUS.COMPLETED, STATUS.FAILED}

\* the request gets past the handler's validation (line 116)
ValidRequest(req) ==
  /\ req.method = "POST" /\ req.body = "json" /\ req.sources # Null
  /\ ~MissingRequired(req)
  /\ TruthyAt(MAX_OUTPUT_TOKENS, Default(req.style, "moderate"))

\* the job created an article: the collection grew since the request arrived
Created(j) == Len(articles) > j.startArticles

\* the tracking updates the job attempted, in order
TrackWrites(j) == SelectSeq(j.log, LAMBDA e : e.op = "updateDocument")

QuotaWrites(j) == SelectSeq(j.log, LAMBDA e : e.op = "updatePrefs")

\* the job's decrement wrote its updatedPrefs to the directory
Charged(j) == \E k \in DOMAIN j.log : j.log[k].op = "updatePrefs" /\ j.log[k].ok

\* C1: a job that returns the success response leaves the counter of the
\* requested tier exactly 1 below its value when the job started, whatever
\* the store calls did.
C1_SuccessChargesOne ==
  \A p \in Procs :
    (Done(p) /\ job[p].resp.kind = "success") =>
      LET j == job[p]
          f == getUsageFieldForRequestType(j.requestType)
      IN FieldOrZero(prefs[j.req.userId], f)
           = FieldOrZero(j.startPrefs[j.req.userId], f) - 1

\* C2: a job that returns an error response has made no quota write and
\* left the preferences as they were; a quota write is made only after the
\* job's article was created.
C2_ErrorLeavesQuota ==
  \A p \in Procs :
    LET j == job[p] IN
    /\ (Done(p) /\ j.resp.kind = "error") =>
         (QuotaWrites(j) = <<>> /\ prefs = j.startPrefs)
    /\ \A i \in DOMAIN j.log :
         j.log[i].op = "updatePrefs" =>
           /\ Created(j)
           /\ \E k \in 1..(i - 1) : j.log[k].op = "createDocument" /\ j.log[k].ok

C2_Witness ==
  \E p \in Procs :
    /\ Done(p) /\ job[p].resp.status = 500
    /\ \E k \in DOMAIN job[p].log :
         job[p].log[k].op = "createDocument" /\ ~job[p].log[k].ok

\* C3: when the response is returned, the job has created an article if and
\* only if the response is the success response, and the success response
\* names that article.
C3_ArticleIffSuccess ==
  \A p \in Procs :
    Done(p) =>
      LET j == job[p] IN
      /\ Created(j) <=> j.resp.kind = "success"
      /\ Len(articles) - j.startArticles \in {0, 1}
      /\ j.resp.kind = "success" =>
           articles[Len(articles)].id = j.resp.articleId

C3_Witness ==
  \E p \in Procs :
    /\ Done(p) /\ job[p].resp.kind = "success"
    /\ Created(job[p])

\* C4 (as claimed): every request that passes validation leaves its
\* tracking record in a terminal state, failed exactly when the response is
\* an error response.
C4_TerminalIffError ==
  \A p \in Procs :
    (Done(p) /\ ValidRequest(job[p].req)) =>
      LET doc == tracking[job[p].req.trackingId] IN
      /\ doc.status \in Terminal
      /\ doc.status = STATUS.FAILED <=> job[p].resp.kind = "error"

\* C4 (amended): a request rejected by the quota check makes no tracking
\* write; any other valid request attempts the inprogress write and then
\* one terminal write, failed exactly when the response is an error
\* response, and the record holds the status of the last write that reached
\* the store.
C4_TerminalWriteMatchesResponse ==
  \A p \in Procs :
    (Done(p) /\ ValidRequest(job[p].req)) =>
      LET j == job[p]
          ws == TrackWrites(j)
          t == j.req.trackingId
      IN IF j.resp.status = 403
         THEN ws = <<>> /\ tracking = j.startTracking
         ELSE /\ Len(ws) = 2
              /\ ws[1].arg = STATUS.IN_PROGRESS
              /\ ws[2].arg = (IF j.resp.kind = "error" THEN STATUS.FAILED
                              ELSE STATUS.COMPLETED)
              /\ tracking[t].status =
                   (IF ws[2].ok THEN ws[2].arg
                    ELSE IF ws[1].ok THEN ws[1].arg
                    ELSE j.startTracking[t].status)

C4_Witness ==
  \E p \in Procs :
    /\ Done(p) /\ ValidRequest(job[p].req)
    /\ job[p].resp.status = 500
    /\ tracking[job[p].req.trackingId].status = STATUS.FAILED

\* C5: whenever the success response is returned, the tracking record it
\* names is completed, has an empty error message and links the returned
\* article.
C5_SuccessMeansCompleted ==
  \A p \in Procs :
    (Done(p) /\ job[p].resp.kind = "success") =>
      tracking[job[p].resp.trackingId] =
        [status |-> STATUS.COMPLETED, error |-> "",
         postId |-> job[p].resp.articleId]

\* C6: an exception raised after the request's tracking id is known makes
\* the catch block attempt the failed update of that record before the 500
\* response.
C6_CatchUpdatesTracking ==
  \A p \in Procs :
    LET j == job[p] IN
    (/\ Done(p)
     /\ j.req.method = "POST" /\ j.req.body = "json" /\ j.req.sources = Null
     /\ ~Falsy(j.req.trackingId)) =>
      /\ j.resp.status = 500
      /\ \E k \in DOMAIN j.log :
           j.log[k].op = "updateDocument" /\ j.log[k].arg = STATUS.FAILED

\* C7: a tracking record whose status is completed or failed keeps that
\* status in every later step.
C7_TerminalIsFinal ==
  [][\A t \in TrackIds :
       tracking[t].status \in Terminal =>
         tracking'[t].status = tracking[t].status]_vars

\* C8: once a job that got past the quota check has answered, its tracking
\* record carries a link if and only if the job created an article, and the
\* link is that article's id.
C8_LinkIffPersisted ==
  \A p \in Procs :
    LET j == job[p] IN
    (Done(p) /\ ValidRequest(j.req) /\ j.resp.status # 403) =>
      LET doc == tracking[j.req.trackingId] IN
      /\ doc.postId # Null <=> Created(j)
      /\ Created(j) => doc.postId = articles[Len(articles)].id

\* C9: a job that read a counter <= 0 for the requested tier has answered
\* 403 and has made no call but that read: the tracking collection, the
\* articles and the preferences are as they were.
C9_ExhaustedIsRejected ==
  \A p \in Procs :
    LET j == job[p] IN
    (j.remainingUses # <<>> /\ j.remainingUses[1] <= 0) =>
      /\ Done(p) /\ j.resp.status = 403 /\ j.resp.kind = "error"
      /\ Len(j.log) = 1 /\ j.log[1].op = "getPrefs"
      /\ tracking = j.startTracking
      /\ Len(articles) = j.startArticles
      /\ prefs = j.startPrefs

C9_Witness ==
  \E p \in Procs :
    /\ Done(p) /\ job[p].remainingUses = <<0>>
    /\ job[p].req.userId \in Registered
    /\ job[p].resp.status = 403

\* C10: the jobs of one user and tier that succeed are at most as many as
\* the counter's starting value, and a job that starts with the counter at
\* 0 is answered 403 and creates no article.
C10_AtMostNSucceed ==
  /\ \A u \in Registered : \A f \in UsageFields :
       successes[u][f] <= FieldOrZero(initPrefs[u], f)
  /\ \A p \in Procs :
       LET j == job[p]
           f == getUsageFieldForRequestType(j.requestType)
       IN (/\ Done(p) /\ ValidRequest(j.req) /\ ~Falsy(f)
           /\ j.req.userId \in Registered
           /\ FieldOrZero(j.startPrefs[j.req.userId], f) = 0) =>
            (j.resp.status = 403 /\ ~Created(j))

\* C11: the write of the decrement stores the preferences computed from the
\* job's own earlier read, whatever the directory holds by then; so two
\* overlapping jobs that read the same counter both succeed and leave it
\* only 1 lower.
C11_WriteIsLastWriterWins ==
  [][\A p \in Procs :
       (job[p].pc = "decrWrite" /\ job'[p].pc = "done" /\ Charged(job'[p])) =>
         prefs'[job[p].req.userId] = job[p].updatedPrefs]_vars

C11_Witness ==
  \E p \in Procs : \E q \in Procs \ {p} :
    LET a == job[p]
        b == job[q]
        f == getUsageFieldForRequestType(a.requestType)
        u == a.req.userId
    IN /\ Done(p) /\ Done(q)
       /\ a.resp.kind = "success" /\ b.resp.kind = "success"
       /\ b.req.userId = u /\ getUsageFieldForRequestType(b.requestType) = f
       /\ Charged(a) /\ Charged(b)
       /\ a.startPrefs = b.startPrefs
       /\ prefs[u][f] = a.startPrefs[u][f] - 1

\* what a logged call is: the operation, or for a tracking update the status
\* it writes
Kind(e) == IF e.op = "updateDocument" THEN e.arg ELSE e.op

\* the external calls of the handler's steps 1 to 8, in program order
HandlerOrder ==
  <<"getPrefs", STATUS.IN_PROGRESS, "generateContent", "users.get",
    "createDocument", STATUS.COMPLETED, "getPrefs", "updatePrefs">>

\* calls whose failure the handler cannot see: the callee catches it
Swallowed == {STATUS.IN_PROGRESS, STATUS.COMPLETED, STATUS.FAILED, "users.get"}

\* C12: the calls of a job follow the handler's order, each made at most
\* once and none repeated; a call is made only if every earlier call was
\* made and succeeded as far as the job can see; the failed update of the
\* tracking record is the last call of a job that makes it; the success
\* response comes after the decrement was attempted.
C12_CallsInOrder ==
  \A p \in Procs :
    LET l == job[p].log
        main == SelectSeq(l, LAMBDA e : Kind(e) # STATUS.FAILED)
    IN /\ Len(main) <= Len(HandlerOrder)
       /\ \A i \in 1..Len(main) : Kind(main[i]) = HandlerOrder[i]
       /\ \A i \in 2..Len(main) :
            main[i - 1].ok \/ Kind(main[i - 1]) \in Swallowed
       /\ \A i \in 1..Len(l) : Kind(l[i]) = STATUS.FAILED => i = Len(l)
       /\ (Len(l) > 0 /\ Kind(l[Len(l)]) = STATUS.FAILED) =>
            (Len(main) >= 2 /\ job[p].pc = "done" /\ job[p].resp.status = 500)
       /\ job[p].resp.kind = "success" => Len(main) >= 7

C12_Witness ==
  \E p \in Procs :
    /\ Done(p) /\ job[p].resp.kind = "success"
    /\ Len(job[p].log) = Len(HandlerOrder)

\* the job ended because generateArticleContent reported no success
GenerationFailed(j) ==
  /\ j.pc = "done"
  /\ Len(j.log) > 0 /\ \E k \in DOMAIN j.log : j.log[k].op = "generateContent"
  /\ j.errMsg \in {GenFailedMsg(e) : e \in BackendErrors} \cup {MsgEmpty}

\* text of a job that went past generateArticleContent
Accepted(j) == j.pc \in {"getUser", "createArticle", "trackCompleted",
                         "decrRead", "decrWrite"}

\* C13 (as stated): a job whose generation failed ends with the tracking
\* record failed with a non-empty error, a 500 response, no article and the
\* counters unchanged; empty or whitespace-only text never goes on.
C13_GenerationFailureRecorded ==
  \A p \in Procs :
    LET j == job[p] IN
    /\ Accepted(j) => ~IsBlankText(j.content)
    /\ GenerationFailed(j) =>
         /\ tracking[j.req.trackingId].status = STATUS.FAILED
         /\ tracking[j.req.trackingId].error # ""
         /\ j.resp.kind = "error" /\ j.resp.status = 500
         /\ ~Created(j)
         /\ prefs = j.startPrefs

\* C13 (amended): a job whose generation failed makes exactly one failed
\* update with the non-empty message of the failure as its last call; the
\* record is failed with that message if that update reached the store and
\* is otherwise left as it was; the response is 500 with the same message,
\* no article is created, no quota call is made after the check and the
\* counters are unchanged; empty or whitespace-only text never goes on.
C13_GenerationFailureAttempted ==
  \A p \in Procs :
    LET j == job[p]
        t == j.req.trackingId
        ws == TrackWrites(j)
    IN
    /\ Accepted(j) => ~IsBlankText(j.content)
    /\ GenerationFailed(j) =>
         /\ Len(ws) = 2 /\ ws[2] = j.log[Len(j.log)]
         /\ ws[2].arg = STATUS.FAILED
         /\ j.errMsg # ""
         /\ IF ws[2].ok
            THEN tracking[t] = [status |-> STATUS.FAILED, error |-> j.errMsg,
                                postId |-> j.startTracking[t].postId]
            ELSE tracking[t] = (IF ws[1].ok
                                THEN UpdatedDoc(j.startTracking[t],
                                                STATUS.IN_PROGRESS, "", Null)
                                ELSE j.startTracking[t])
         /\ j.resp = ErrorResp(500, j.errMsg)
         /\ ~Created(j) /\ articles = SubSeq(articles, 1, j.startArticles)
         /\ QuotaWrites(j) = <<>>
         /\ prefs = j.startPrefs

C13_Witness ==
  \E p \in Procs :
    /\ GenerationFailed(job[p]) /\ job[p].errMsg = MsgEmpty
    /\ tracking[job[p].req.trackingId] =
         [status |-> STATUS.FAILED, error |-> MsgEmpty, postId |-> Null]

\* the job ended because isValidHTMLContent returned false
ValidationFailed(j) == j.pc = "done" /\ j.errMsg = MsgValidation

\* the createDocument calls of a job
ArticleWrites(j) == SelectSeq(j.log, LAMBDA e : e.op = "createDocument")

\* C14 (as stated): a job creates at most one article and only from text
\* the validator accepted; a job whose text the validator rejected ends with
\* the tracking record failed and no article.
C14_OneValidatedArticle ==
  \A p \in Procs :
    LET j == job[p] IN
    /\ j.pc # "idle" =>
         /\ Len(articles) - j.startArticles \in {0, 1}
         /\ Len(ArticleWrites(j)) <= 1
         /\ Created(j) => /\ isValidHTMLContent(j.content)
                          /\ articles[Len(articles)].content = j.content
    /\ ValidationFailed(j) =>
         /\ tracking[j.req.trackingId].status = STATUS.FAILED
         /\ ~Created(j) /\ ArticleWrites(j) = <<>>

\* C14 (amended): a job creates at most one article and only from text the
\* validator accepted; a job whose text the validator rejected makes one
\* failed update of the tracking record as its last call, answers 500 and
\* makes no createDocument call; the record is failed if that update
\* reached the store.
C14_OneValidatedArticleOrAbort ==
  \A p \in Procs :
    LET j == job[p]
        ws == TrackWrites(j)
    IN
    /\ j.pc # "idle" =>
         /\ Len(articles) - j.startArticles \in {0, 1}
         /\ Len(ArticleWrites(j)) <= 1
         /\ Created(j) => /\ isValidHTMLContent(j.content)
                          /\ articles[Len(articles)].content = j.content
    /\ ValidationFailed(j) =>
         /\ Len(ws) = 2 /\ ws[2] = j.log[Len(j.log)]
         /\ ws[2].arg = STATUS.FAILED
         /\ ws[2].ok => tracking[j.req.trackingId].status = STATUS.FAILED
         /\ j.resp = ErrorResp(500, MsgValidation)
         /\ ~Created(j) /\ ArticleWrites(j) = <<>>

C14_Witness ==
  \E p \in Procs :
    /\ ValidationFailed(job[p])
    /\ tracking[job[p].req.trackingId].status = STATUS.FAILED
    /\ Len(articles) = 1

\* the styles CONFIG.MAX_OUTPUT_TOKENS lists
AcceptedStyles == {"concise", "moderate", "extended"}

\* a parsed POST request with a required field missing or empty, or a style
\* outside the accepted set
BadInput(req) ==
  /\ req.method = "POST" /\ req.body = "json"
  /\ \/ MissingRequired(req)
     \/ Default(req.style, "moderate") \notin AcceptedStyles

\* C15: a request with a missing or empty required field or an unaccepted
\* style is answered 400 at once, having made no external call.
C15_BadInputIs400 ==
  \A p \in Procs :
    (job[p].pc # "idle" /\ BadInput(job[p].req)) =>
      /\ job[p].pc = "done"
      /\ job[p].resp.kind = "error" /\ job[p].resp.status = 400
      /\ job[p].log = <<>>

\* the quota check of the job read a counter and found it exhausted
FoundExhausted(j) ==
  /\ j.remainingUses # <<>>
  /\ Exhausted(j.remainingUses[1])

\* the job ended in the quota check: its only call is the first getPrefs
EndedInQuotaCheck(j) ==
  /\ j.pc = "done" /\ Len(j.log) = 1 /\ j.log[1].op = "getPrefs"

\* C16: 403 is answered only when the counter read for the requested tier is
\* <= 0; an unknown request type is answered 400 and an error of the quota
\* store 429 or 500.
C16_403OnlyWhenExhausted ==
  \A p \in Procs :
    LET j == job[p] IN
    /\ (j.pc = "done" /\ j.resp.status = 403) => FoundExhausted(j)
    /\ (EndedInQuotaCheck(j) /\ ~j.log[1].ok) => j.resp.status \in {429, 500}
    /\ (EndedInQuotaCheck(j) /\ j.log[1].ok
          /\ Falsy(getUsageFieldForRequestType(j.requestType))) =>
         j.resp.status = 400

\* a step in which one job's decrement writes the preferences it computed
DecrementStep ==
  \E p \in Procs :
    /\ job[p].pc = "decrWrite" /\ job'[p].pc = "done"
    /\ daily' = daily
    /\ prefs' = [prefs EXCEPT ![job[p].req.userId] = job[p].updatedPrefs]

\* a step in which a job's decrement reads the preferences and computes the
\* ones it will write: no counter higher than the one read
DecrementComputes(p) ==
  (job[p].pc = "decrRead" /\ job'[p].pc = "decrWrite") =>
    \A f \in UsageFields :
      FieldOrZero(job'[p].updatedPrefs, f) <=
        FieldOrZero(PrefsOrDefault(job[p].req.userId), f)

\* a step in which the daily update writes one user's preferences
ResetStep ==
  /\ daily.pc = "update" /\ daily'.next = daily.next + 1
  /\ job' = job
  /\ \A u \in Registered :
       prefs'[u] # prefs[u] =>
         \E labels \in LabelLists :
           \A f \in UsageFields : prefs'[u][f] = usageValues(labels)[f]

\* C17 (as stated): no counter is ever higher than it was in an earlier
\* state.
C17_CountersNeverIncrease ==
  [][\A u \in Registered : \A f \in UsageFields :
       FieldOrZero(prefs'[u], f) <= FieldOrZero(prefs[u], f)]_vars

\* C17 (amended): the preferences are changed only by the decrement of a
\* generation job, which writes counters no higher than the ones it read,
\* and by the daily update, which sets the three counters of a user to the
\* reset values of the user's labels.
C17_OnlyDecrementAndReset ==
  [][/\ prefs' # prefs => (DecrementStep \/ ResetStep)
     /\ \A p \in Procs : DecrementComputes(p)]_vars

\* a generation job has charged a counter the daily update had reset
C17_Witness ==
  /\ daily.updatedCount = 1 /\ daily.pc = "idle"
  /\ \E p \in Procs :
       /\ Done(p) /\ job[p].resp.kind = "success" /\ Charged(job[p])
       /\ prefs["u1"].basic_uses = RegularUsage.basic_uses - 1

\* C18: whatever the counter of the used tier is when the decrement reads
\* it (absent, negative, zero or positive), the value written is
\* max(0, current - 1): one less for a positive counter, 0 otherwise, and
\* never below 0.
C18_WrittenCounterNotNegative ==
  probe.fn = "decrementUserQuota" =>
    LET f == probe.usageField
        cp == probe.currentPrefs
        written == probe.updatedPrefs[f]
    IN /\ written >= 0
       /\ f \notin DOMAIN cp => written = 0
       /\ (f \in DOMAIN cp /\ cp[f] >= 1) => written = cp[f] - 1
       /\ (f \in DOMAIN cp /\ cp[f] <= 0) => written = 0

\* the decrement was applied to a negative counter
C18_Witness ==
  /\ probe.fn = "decrementUserQuota"
  /\ probe.usageField \in DOMAIN probe.currentPrefs
  /\ probe.currentPrefs[probe.usageField] = 0 - MaxDebt
  /\ probe.updatedPrefs[probe.usageField] = 0

\* C19: the preferences a decrement computes agree with the ones it read on
\* every field but the counter of the used tier and have no other new
\* field, and its write stores exactly what it computed: with requests
\* handled one at a time, the stored record after the write has the
\* other counters and the other preferences as they were before.
C19_OtherFieldsPreserved ==
  [][\A p \in Procs :
       LET u == job[p].req.userId
           f == getUsageFieldForRequestType(job[p].requestType)
       IN /\ (job[p].pc = "decrRead" /\ job'[p].pc = "decrWrite") =>
               LET read == PrefsOrDefault(u)
                   new == job'[p].updatedPrefs
               IN /\ DOMAIN new = (DOMAIN read) \cup {f}
                  /\ \A k \in (DOMAIN read) \ {f} : new[k] = read[k]
          /\ (job[p].pc = "decrWrite" /\ prefs' # prefs) =>
               /\ prefs'[u] = job[p].updatedPrefs
               /\ DOMAIN prefs'[u] = (DOMAIN prefs[u]) \cup {f}
               /\ \A k \in (DOMAIN prefs[u]) \ {f} : prefs'[u][k] = prefs[u][k]
               /\ \A v \in Registered \ {u} : prefs'[v] = prefs[v]]_vars

\* a decrement has been written for a user with a preference that is no
\* counter and with other counters: they are as they were
C19_Witness ==
  \E p \in Procs :
    LET j == job[p]
        u == j.req.userId
    IN /\ Done(p) /\ Charged(j)
       /\ j.requestType = "basic"
       /\ {"theme", "pro_uses", "ultra_uses"} \subseteq DOMAIN j.startPrefs[u]
       /\ prefs[u].basic_uses = j.startPrefs[u].basic_uses - 1
       /\ \A k \in {"theme", "pro_uses", "ultra_uses"} :
            prefs[u][k] = j.startPrefs[u][k]

\* C20: the error message of a tracking record never exceeds the maximum
\* length.
C20_ErrorLengthBounded ==
  \A t \in TrackIds : Len(tracking[t].error) <= MaxErrorLength

\* C21: a tracking record's error message is non-empty only if its status
\* is failed: the updates to inprogress and completed write an empty
\* message over whatever the record held.
C21_ErrorOnlyWhenFailed ==
  \A t \in TrackIds : tracking[t].error # "" => tracking[t].status = STATUS.FAILED

\* a record that was failed with a message has been taken to inprogress by
\* a later job
C21_Witness ==
  \E p \in Procs :
    LET j == job[p]
        t == j.req.trackingId
    IN /\ j.pc = "generate"
       /\ j.startTracking[t].status = STATUS.FAILED
       /\ j.startTracking[t].error # ""
       /\ tracking[t] = [status |-> STATUS.IN_PROGRESS, error |-> "",
                         postId |-> j.startTracking[t].postId]

\* the job's quota check got not-found from users.getPrefs: the call did
\* not fail otherwise and the user has no preference record
PrefsNotFound(j) ==
  /\ Len(j.log) >= 1 /\ j.log[1].op = "getPrefs" /\ j.log[1].ok
  /\ j.req.userId \notin Registered

\* C22: when the quota store has no record for the user, the quota check
\* reads 0 for the requested tier and the job is answered 403 as exhausted,
\* having made no other call and written nothing.
C22_NotFoundIsExhausted ==
  \A p \in Procs :
    LET j == job[p] IN
    (PrefsNotFound(j) /\ ~Falsy(getUsageFieldForRequestType(j.requestType))) =>
      /\ j.pc = "done"
      /\ j.remainingUses = <<0>>
      /\ j.resp = ErrorResp(403, MsgInsufficient)
      /\ Len(j.log) = 1
      /\ prefs = j.startPrefs /\ tracking = j.startTracking
      /\ Len(articles) = j.startArticles

C22_Witness ==
  \E p \in Procs :
    /\ PrefsNotFound(job[p]) /\ Done(p)
    /\ job[p].requestType = "ultra"
    /\ job[p].resp.status = 403

\* html holds an element of the given name: an opening tag <name> or
\* <name ...>, upper or lower case, and a closing tag </name> behind it,
\* with any text between them
ContainsElement(html, name) ==
  LET open == <<"<">> \o name
      close == <<"<", "/">> \o name \o <<">">>
  IN \E i \in 1..Len(html) :
       /\ MatchAt(html, i, open)
       /\ i + Len(open) <= Len(html)
       /\ html[i + Len(open)] \in {">", " "}
       /\ \E j \in (i + Len(open))..Len(html) :
            /\ \A k \in (i + Len(open))..(j - 1) : html[k] # ">"
            /\ html[j] = ">"
            /\ \E m \in (j + 1)..Len(html) : MatchAt(html, m, close)

\* C23: the validator returns true exactly when the text holds a level-2
\* heading element or a paragraph element, in either case of letters; true
\* for "<h2>x</h2>" and "<p>x</p>", false for "plain text".
C23_ValidIffElement ==
  probe.fn = "isValidHTMLContent" =>
    /\ probe.isValid <=> (\/ ContainsElement(probe.html, <<"h", "2">>)
                          \/ ContainsElement(probe.html, <<"p">>))
    /\ probe.html \in {TextH2, TextP} => probe.isValid
    /\ probe.html = TextPlain => ~probe.isValid

\* CONFIG.MODELS[requestType] || CONFIG.MODELS.basic, for the request types
\* the quota check lets through (none of them names a member of
\* Object.prototype)
modelName(requestType) ==
  IF requestType \in DOMAIN MODELS THEN MODELS[requestType] ELSE MODELS.basic

\* the tier a usage field counts
TierOf(usageField) ==
  CASE usageField = "basic_uses" -> "basic"
    [] usageField = "pro_uses" -> "pro"
    [] usageField = "ultra_uses" -> "ultra"

\* C24: a request that passed the quota check is served by the model of the
\* tier whose counter was checked and is decremented.
C24_ChargedTierIsServedTier ==
  \A p \in Procs :
    LET j == job[p] IN
    (\E k \in DOMAIN j.log : j.log[k].op = "generateContent") =>
      modelName(j.requestType) =
        MODELS[TierOf(getUsageFieldForRequestType(j.requestType))]

\* C25: an update of the daily run that reaches the store leaves the user
\* with counters 999/999/999 if the listed labels contain admin and 10/5/3
\* otherwise, and with every other field as listed and as stored before.
C25_ResetValuesByLabel ==
  [][(daily.pc = "update" /\ daily'.updatedCount = daily.updatedCount + 1) =>
       LET user == daily.batch[daily.next]
           new == prefs'[user.id]
       IN /\ IF \E i \in DOMAIN user.labels : user.labels[i] = "admin"
             THEN new.basic_uses = 999 /\ new.pro_uses = 999 /\ new.ultra_uses = 999
             ELSE new.basic_uses = 10 /\ new.pro_uses = 5 /\ new.ultra_uses = 3
          /\ DOMAIN new = (DOMAIN user.prefs) \cup UsageFields
          /\ DOMAIN new = (DOMAIN prefs[user.id]) \cup UsageFields
          /\ \A k \in (DOMAIN new) \ UsageFields :
               new[k] = user.prefs[k] /\ new[k] = prefs[user.id][k]]_vars

\* an admin whose record had no counters has been reset
C25_Witness ==
  /\ daily.updatedCount = 1
  /\ initPrefs["u1"] = [theme |-> "dark"]
  /\ prefs["u1"] = [theme |-> "dark", basic_uses |-> 999, pro_uses |-> 999,
                    ultra_uses |-> 999]

\* a run has ended without the threshold having been exceeded
RunEndedInTime == daily.pc = "idle" /\ daily.status # 0
                  /\ daily.elapsed <= TIMEOUT_THRESHOLD

\* the run's progress is within the directory: it cannot go on for ever
RunBounded ==
  /\ daily.offset <= Len(daily.dir)
  /\ daily.next <= Len(daily.batch) + 1
  /\ Len(daily.attempted) = daily.updatedCount + daily.errorCount
  /\ Len(daily.attempted) <= Len(daily.dir)

\* C27 (as stated): a run in which the threshold is not reached attempts
\* the update exactly once for every user, in every directory size, and
\* reports totalUpdated + errors = number of users.
C27_EveryUserOnce ==
  /\ RunBounded
  /\ RunEndedInTime =>
       /\ daily.attempted = daily.dir
       /\ daily.updatedCount + daily.errorCount = Len(daily.dir)

\* C27 (amended): every run that is started ends; and a run in which the
\* threshold is not reached and, moreover, every users.list call succeeded
\* (the run that answers with the summary) has attempted the update exactly
\* once for every user and reports totalUpdated + errors = number of users.
C27_EveryUserOnceIfListed ==
  /\ [](/\ RunBounded
        /\ (RunEndedInTime /\ daily.status = 200) =>
             /\ daily.attempted = daily.dir
             /\ daily.updatedCount + daily.errorCount = Len(daily.dir))
  /\ (daily.pc # "idle" ~> daily.pc = "idle")

\* a run over exactly two full pages with failed updates has ended
C27_Witness ==
  /\ RunEndedInTime /\ daily.status = 200
  /\ Len(daily.dir) = 2 * limit
  /\ daily.errorCount = MaxErrors
  /\ daily.attempted = daily.dir

\* C28: at the end of a batch the run stops fetching when more than
\* 14 minutes 30 seconds (870000 ms) have elapsed, and a run that stops
\* after a full page has seen more than that elapse.
C28_StopsAtFourteenThirty ==
  [][(daily.pc = "update" /\ daily.next > Len(daily.batch) /\ daily' # daily) =>
       /\ daily'.elapsed > 14 * 60 * 1000 + 30 * 1000 => daily'.pc = "idle"
       /\ (daily'.pc = "idle" /\ Len(daily.batch) = limit) =>
            daily'.elapsed > 14 * 60 * 1000 + 30 * 1000]_vars

\* every user of the directory has been got to by some run
AllReached == \A i \in DOMAIN daily.dir : daily.dir[i] \in daily.reached

C29_ResetOrOneLess ==
  \A p \in Procs :
    LET j == job[p]
        u == j.req.userId
        f == getUsageFieldForRequestType(j.requestType)
    IN (/\ Done(p) /\ j.resp.kind = "success" /\ Charged(j)
        /\ daily.pc = "idle" /\ daily.status = 200 /\ daily.updatedCount = 1
        /\ daily.batch[1].id = u) =>
         LET reset == usageValues(daily.batch[1].labels)[f]
         IN prefs[u][f] \in {reset, reset - 1}

\* the users 1..n, each once, in order
Each(n) == [i \in 1..n |-> i]

\* C30 (as stated): a client that has stopped has received every matching
\* user exactly once; it stops within total + 1 requests; the limit used is
\* in 1..100 and the offset >= 0; nextOffset is null exactly when hasMore is
\* false.
C30_ClientGetsAll ==
  probe.fn = "search" =>
    /\ probe.sanitizedLimit \in 1..100 /\ probe.sanitizedOffset >= 0
    /\ probe.nextOffset = <<>> <=> ~probe.hasMore
    /\ probe.requests <= probe.total + 1
    /\ probe.pc # "asking" => probe.users = Each(probe.total)

\* C30 (amended): the same for a client all of whose requests the directory
\* answered; a client one of whose requests failed has stopped with what it
\* had received until then, every user at most once.
C30_ClientGetsAllIfAnswered ==
  probe.fn = "search" =>
    /\ probe.sanitizedLimit \in 1..100 /\ probe.sanitizedOffset >= 0
    /\ probe.nextOffset = <<>> <=> ~probe.hasMore
    /\ probe.requests <= probe.total + 1
    /\ probe.users = Each(Len(probe.users)) /\ Len(probe.users) <= probe.total
    /\ probe.pc = "asking" => Len(probe.users) < probe.total \/ probe.requests = 0
    /\ probe.pc = "complete" => probe.users = Each(probe.total)
    /\ probe.pc = "failed" => probe.status \in SearchErrors(probe.handler)

\* a client asking for 1000 users a page has received 101 users in two
\* requests
C30_Witness ==
  /\ probe.fn = "search" /\ probe.pc = "complete"
  /\ probe.limit = Num(1000) /\ probe.total = 101
  /\ probe.requests = 2 /\ probe.users = Each(101)

====
